---- MODULE Spec2Model ----
(***************************************************************************)
(* Model of src/app.py (PROLET): a Flask backend with five page routes and *)
(* three JSON endpoints, /api/chat, /api/send-email, /api/analyze-letter.  *)
(*                                                                         *)
(* Texts that the code trims, measures or searches (message, letter, to,   *)
(* the model output) are sequences of one-character strings.  Fixed texts  *)
(* of the program (error messages, prompt templates) are sequences of text *)
(* segments, so every JSON text of the model is a sequence of strings.     *)
(*                                                                         *)
(* The handlers share no mutable state (only os.environ, which they read), *)
(* so one handler thread is modelled; each blocking external call is a     *)
(* step of its own whose outcome (return or raise) is chosen by the peer.  *)
(***************************************************************************)
EXTENDS Integers, Sequences, FiniteSets, TLC

VARIABLES
    dotenv,     \* contents of the .env file on disk (may be edited while running)
    environ,    \* os.environ of the process
    bootEnv,    \* history: os.environ as it was when startup (line 11) completed
    pc,         \* position of the handler thread
    req,        \* the request being handled, NoReq when idle
    frame,      \* the handler's local variables (prompt, msg, credentials)
    resp,       \* the response returned for req, NoResp while it is in progress
    calls,      \* external calls attempted during req, in order, with outcome
    conn,       \* the smtplib.SMTP object of req: "none", "open", "closed"
    openConns,  \* number of SMTP sockets the process holds open
    exc,        \* exception in flight inside the `with` block, or NoExc
    logged      \* what the except clause printed for req, or NoExc

vars == <<dotenv, environ, bootEnv, pc, req, frame, resp, calls, conn, openConns, exc, logged>>

\* ------------------------------------------------------------------ bounds
MaxLen == 2          \* longest message / letter drawn as request input
MaxReplyLen == 10    \* longest run of letters in a model output

\* ------------------------------------------------------------------ texts
Whitespace == {" ", "\n"}

RECURSIVE lstrip(_)
lstrip(s) ==
    IF s # <<>> /\ Head(s) \in Whitespace THEN lstrip(Tail(s)) ELSE s

RECURSIVE rstrip(_)
rstrip(s) ==
    IF s # <<>> /\ s[Len(s)] \in Whitespace THEN rstrip(SubSeq(s, 1, Len(s) - 1)) ELSE s

\* Variant: the text is used as received.
strip_nothing(s) == s

\* str.strip(): drop leading and trailing whitespace.
strip(s) == rstrip(lstrip(s))

\* `sub in s` for Python strings.
Contains(sub, s) ==
    \E i \in 0..(Len(s) - Len(sub)) : SubSeq(s, i + 1, i + Len(sub)) = sub

Rep(c, n) == [i \in 1..n |-> c]

Strings(alphabet, n) == UNION {[1..k -> alphabet] : k \in 0..n}

\* ------------------------------------------------------------------ JSON
\* A value found under a key of the request body: a string, null, or no key.
Str(s) == [kind |-> "str", s |-> s]
Null == [kind |-> "null", s |-> <<>>]
Absent == [kind |-> "absent", s |-> <<>>]

AttributeError == "AttributeError: 'NoneType' object has no attribute 'strip'"
BadRequest == "BadRequest: failed to decode JSON object"
NoExc == "-"

\* data.get(key, default): the default only replaces a missing key.
get(v, default) == IF v.kind = "absent" THEN Str(default) ELSE v

\* ------------------------------------------------------------------ config
EnvVars == {"MAIL_USERNAME", "MAIL_APP_PASSWORD"}
None == "<None>"
ProcessEnvs == [EnvVars -> {None, "", "os-value"}]
DotenvFiles == [EnvVars -> {None, "file-value"}]

\* load_dotenv() with override=False: a variable the process already has
\* is kept, the others are taken from the file.
load_dotenv(env, file) ==
    [k \in EnvVars |-> IF env[k] # None THEN env[k] ELSE file[k]]

\* Variant: the .env file is read again, with override, at every lookup.
getenv_reloads(name) == IF dotenv[name] # None THEN dotenv[name] ELSE environ[name]

\* os.getenv(name)
getenv(name) == environ[name]

\* `not x` for an Optional[str]
Falsy(x) == x = None \/ x = ""


\* ------------------------------------------------------------------ requests
PageRoutes == {"/", "/login", "/chatbot", "/contact", "/signup"}

\* The parsed request: json is FALSE when request.json cannot produce a body.
Body(json, message, tone, letter, to) ==
    [json |-> json, message |-> message, tone |-> tone, letter |-> letter, to |-> to]

NoBody == Body(FALSE, Absent, Absent, Absent, Absent)

TextValues == {Str(s) : s \in Strings({"a", " "}, MaxLen)} \cup {Null, Absent}

ToneValues ==
    {Str(<<t>>) : t \in {"formal", "informal", "auto", "Formal", "casual"}} \cup {Null, Absent}

at == "@"
dot == "."

ToValues ==
    {Str(s) : s \in { <<>>, <<" ">>,
                      <<"a", at, "a", dot, "a">>,
                      <<" ", "a", at, "a", dot, "a", "\n">>,
                      <<"a", "a", "a">>,
                      <<"a", at, "a">>,
                      <<at, "a", dot, "a">>,
                      <<"a", at, at, "a", dot, "a">> }} \cup {Null, Absent}

ChatBodies ==
    {Body(TRUE, m, t, Absent, Absent) : m \in TextValues, t \in ToneValues} \cup {NoBody}

EmailBodies ==
    {Body(TRUE, Absent, Absent, l, t) : l \in TextValues, t \in ToValues} \cup {NoBody}

AnalyzeBodies ==
    {Body(TRUE, Absent, Absent, l, Absent) : l \in TextValues} \cup {NoBody}

Request(route, body) == [route |-> route, body |-> body]

NoReq == Request("", NoBody)

\* ------------------------------------------------------------------ responses
\* jsonify({key: value}), status
Response(status, key, value) == [status |-> status, key |-> key, value |-> value]

NoResp == Response(0, "", <<>>)

MessageCannotBeEmpty == <<"Message cannot be empty">>
ChatTrouble == <<"Sorry, I'm having trouble right now.">>
LetterAndRecipientRequired == <<"Letter and recipient email are required">>
EmailNotConfigured == <<"Email not configured. Check .env file.">>
EmailSent == <<"Email sent successfully!">>
FailedToSend == <<"Failed to send email. Please try again.">>
ProvideALetter == <<"Please provide a letter to analyze.">>
FailedToAnalyze == <<"Failed to analyze letter. Please try again.">>

\* The message each endpoint's except clause returns.
GenericError(route) ==
    CASE route = "/api/chat" -> ChatTrouble
      [] route = "/api/send-email" -> FailedToSend
      [] route = "/api/analyze-letter" -> FailedToAnalyze

\* Variant: the except clause returns str(e) to the client.
on_exception_leaks(route, e) == Response(500, "error", <<"Error: ", e>>)

\* except Exception as e: ... return jsonify({"error": <fixed text>}), 500
on_exception(route, e) == Response(500, "error", GenericError(route))

\* ------------------------------------------------------------------ prompts
FormalTemplate ==
    <<"You are Prolet, a professional letter-writing assistant.",
      "Write a complete formal business letter using this exact structure:">>
InformalTemplate ==
    <<"You are Prolet, a friendly letter-writing assistant.",
      "Write a complete informal letter using this structure:">>
AutoTemplate ==
    <<"You are Prolet, a letter-writing assistant.",
      "Automatically decide if the letter should be formal or informal based on the request.">>
AnalyzeTemplate ==
    <<"You are Prolet, a professional letter-editing AI assistant.", "Suggestions:">>

\* Variant: the first test is the substring test `"formal" in tone`.
system_prompt_substring(tone) ==
    IF tone \in {Str(<<"formal">>), Str(<<"informal">>)} THEN FormalTemplate
    ELSE AutoTemplate

\* The if / elif / else over tone.
system_prompt(tone) ==
    IF tone = Str(<<"formal">>) THEN FormalTemplate
    ELSE IF tone = Str(<<"informal">>) THEN InformalTemplate
    ELSE AutoTemplate

Prompt(template, text) == [system_prompt |-> template, text |-> text]

NoPrompt == Prompt(<<>>, <<>>)

\* ------------------------------------------------------------------ mail
Message(from, to, subject, body) ==
    [From |-> from, To |-> to, Subject |-> subject, body |-> body]

NoMsg == Message("", <<>>, "", <<>>)

Frame(prompt, msg, sender_email, sender_password) ==
    [prompt |-> prompt, msg |-> msg,
     sender_email |-> sender_email, sender_password |-> sender_password]

NoFrame == Frame(NoPrompt, NoMsg, None, None)

\* ------------------------------------------------------------------ external calls
\* One external call: its name, whether it returned, its arguments, its result.
Call(op, ok, args, result) == [op |-> op, ok |-> ok, args |-> args, result |-> result]

\* The text of the exception a failing external call raises.
Raised(op) ==
    CASE op = "generate_content" -> "ResourceExhausted: 429 quota exceeded"
      [] op = "SMTP" -> "OSError: [Errno 101] Network is unreachable"
      [] op = "starttls" -> "SMTPNotSupportedError: STARTTLS extension not supported by server."
      [] op = "login" -> "SMTPAuthenticationError: (535, 'Username and Password not accepted')"
      [] op = "send_message" -> "SMTPRecipientsRefused: recipient refused"
      [] op = "QUIT" -> "SMTPResponseException: (421, 'closing')"


\* ------------------------------------------------------------------ model output
Marker == <<"S", "u", "g", "g", "e", "s", "t", "i", "o", "n", "s", ":">>

MinReplyLen == 10

\* The static reply of analyze_letter; the literal starts and ends with a newline.
Fallback ==
    <<"\n",
      "- The letter is well-written but could be more formal.",
      "- Add a closing line like Sincerely, for professionalism.",
      "- Shorten long paragraphs for better readability.",
      "\n">>

\* Variant: the length test is left out.
analyze_reply_no_length(reply) ==
    IF reply = <<>> \/ Contains(Marker, reply) THEN Fallback ELSE reply

\* if not reply or "Suggestions:" in reply or len(reply) < 10: reply = <fallback>
analyze_reply(reply) ==
    IF reply = <<>> \/ Contains(Marker, reply) \/ Len(reply) < MinReplyLen
    THEN Fallback
    ELSE reply

\* response.text as the text-generation service may return it
ModelCores ==
    {Rep("a", n) : n \in 0..MaxReplyLen}
    \cup {Marker, <<"a">> \o Marker \o <<"a">>, Rep("a", 4) \o <<" ">> \o Rep("a", 5)}

ModelOutputs ==
    {l \o c \o r : l \in {<<>>, <<" ">>}, c \in ModelCores, r \in {<<>>, <<"\n">>}}

\* ------------------------------------------------------------------ startup
Init ==
    /\ dotenv \in DotenvFiles
    /\ \E env \in ProcessEnvs : environ = load_dotenv(env, dotenv)
    /\ bootEnv = environ
    /\ pc = "idle"
    /\ req = NoReq
    /\ frame = NoFrame
    /\ resp = NoResp
    /\ calls = <<>>
    /\ conn = "none"
    /\ openConns = 0
    /\ exc = NoExc
    /\ logged = NoExc

\* ------------------------------------------------------------------ handler plumbing
\* A request is dispatched to its view function on the idle handler thread.
Begin(route, body) ==
    /\ pc = "idle"
    /\ req' = Request(route, body)
    /\ UNCHANGED <<dotenv, environ, bootEnv, calls, conn, openConns, exc>>

\* The response has been written to the client: the view function's frame is
\* gone and the thread takes the next request.
deliver ==
    /\ pc = "done"
    /\ pc' = "idle"
    /\ req' = NoReq
    /\ frame' = NoFrame
    /\ resp' = NoResp
    /\ calls' = <<>>
    /\ conn' = "none"
    /\ logged' = NoExc
    /\ UNCHANGED <<dotenv, environ, bootEnv, openConns, exc>>

\* Variant: a failed text-generation call is tried again.
after_except_retry(p) == IF p = "generate_content" THEN p ELSE "done"

\* Where the handler continues once its except clause has run at position p:
\* the clause returns, the request is over.
after_except(p) == "done"

\* return <response>
Return(r) ==
    /\ resp' = r
    /\ pc' = "done"

\* The except clause of the handler of `route`, entered with exception e.
Except(route, e, p) ==
    /\ resp' = on_exception(route, e)
    /\ logged' = e
    /\ pc' = after_except(p)

\* ------------------------------------------------------------------ page routes
\* home, login, chatbot, contact, signup: render_template(<page>)
page(route) ==
    /\ Begin(route, NoBody)
    /\ Return(Response(200, "html", <<route>>))
    /\ frame' = NoFrame
    /\ logged' = NoExc

\* ------------------------------------------------------------------ /api/chat
chat(body) ==
    /\ Begin("/api/chat", body)
    /\ IF ~body.json
       THEN Except("/api/chat", BadRequest, pc) /\ frame' = NoFrame
       ELSE IF get(body.message, <<>>).kind = "null"
       THEN Except("/api/chat", AttributeError, pc) /\ frame' = NoFrame
       ELSE LET user_message == strip(get(body.message, <<>>).s)
                tone == get(body.tone, <<"auto">>)
            IN  IF user_message = <<>>
                THEN /\ Return(Response(400, "error", MessageCannotBeEmpty))
                     /\ frame' = NoFrame
                     /\ logged' = NoExc
                ELSE /\ frame' = Frame(Prompt(system_prompt(tone), user_message),
                                       NoMsg, None, None)
                     /\ pc' = "generate_content"
                     /\ resp' = NoResp
                     /\ logged' = NoExc

\* ------------------------------------------------------------------ /api/analyze-letter
analyze_letter(body) ==
    /\ Begin("/api/analyze-letter", body)
    /\ IF ~body.json
       THEN Except("/api/analyze-letter", BadRequest, pc) /\ frame' = NoFrame
       ELSE IF get(body.letter, <<>>).kind = "null"
       THEN Except("/api/analyze-letter", AttributeError, pc) /\ frame' = NoFrame
       ELSE LET letter == strip(get(body.letter, <<>>).s)
            IN  IF letter = <<>>
                THEN /\ Return(Response(400, "error", ProvideALetter))
                     /\ frame' = NoFrame
                     /\ logged' = NoExc
                ELSE /\ frame' = Frame(Prompt(AnalyzeTemplate, letter), NoMsg, None, None)
                     /\ pc' = "generate_content"
                     /\ resp' = NoResp
                     /\ logged' = NoExc

\* ------------------------------------------------------------------ model.generate_content
\* response = model.generate_content(prompt); reply = response.text.strip()
generate_content_returns(text) ==
    /\ pc = "generate_content"
    /\ calls' = Append(calls, Call("generate_content", TRUE, <<frame.prompt>>, text))
    /\ LET reply == strip(text)
       IN  Return(Response(200, "reply",
                           IF req.route = "/api/analyze-letter"
                           THEN analyze_reply(reply)
                           ELSE reply))
    /\ UNCHANGED <<dotenv, environ, bootEnv, req, frame, conn, openConns, exc, logged>>

generate_content_raises ==
    /\ pc = "generate_content"
    /\ calls' = Append(calls, Call("generate_content", FALSE, <<frame.prompt>>, <<>>))
    /\ Except(req.route, Raised("generate_content"), pc)
    /\ UNCHANGED <<dotenv, environ, bootEnv, req, frame, conn, openConns, exc>>


\* ------------------------------------------------------------------ /api/send-email
\* if not letter or not recipient
letter_or_recipient_missing(letter, recipient) == letter = <<>> \/ recipient = <<>>

\* Variant: `and` in place of `or`.
not_configured_both(sender_email, sender_password) ==
    Falsy(sender_email) /\ Falsy(sender_password)

\* if not sender_email or not sender_password
not_configured(sender_email, sender_password) ==
    Falsy(sender_email) \/ Falsy(sender_password)

Subject == "Your Prolet Letter"

send_email(body) ==
    /\ Begin("/api/send-email", body)
    /\ IF ~body.json
       THEN Except("/api/send-email", BadRequest, pc) /\ frame' = NoFrame
       ELSE IF get(body.letter, <<>>).kind = "null" \/ get(body.to, <<>>).kind = "null"
       THEN Except("/api/send-email", AttributeError, pc) /\ frame' = NoFrame
       ELSE LET letter == strip(get(body.letter, <<>>).s)
                recipient == strip(get(body.to, <<>>).s)
                sender_email == getenv("MAIL_USERNAME")
                sender_password == getenv("MAIL_APP_PASSWORD")
            IN  IF letter_or_recipient_missing(letter, recipient)
                THEN /\ Return(Response(400, "error", LetterAndRecipientRequired))
                     /\ frame' = NoFrame
                     /\ logged' = NoExc
                ELSE IF not_configured(sender_email, sender_password)
                THEN /\ Return(Response(500, "error", EmailNotConfigured))
                     /\ frame' = Frame(NoPrompt, NoMsg, sender_email, sender_password)
                     /\ logged' = NoExc
                ELSE /\ frame' = Frame(NoPrompt,
                                       Message(sender_email, recipient, Subject, letter),
                                       sender_email, sender_password)
                     /\ pc' = "SMTP"
                     /\ resp' = NoResp
                     /\ logged' = NoExc

\* Variant: login is called before starttls.
next_step_login_first(p) ==
    CASE p = "SMTP" -> "login"
      [] p = "login" -> "starttls"
      [] p = "starttls" -> "send_message"
      [] p = "send_message" -> "__exit__"

\* The order of the statements of step 5: the constructor, then the body of
\* the with block, then the context manager's exit.
next_step(p) ==
    CASE p = "SMTP" -> "starttls"
      [] p = "starttls" -> "login"
      [] p = "login" -> "send_message"
      [] p = "send_message" -> "__exit__"

\* with smtplib.SMTP("smtp.gmail.com", 587) as server: the constructor connects.
SMTP_returns ==
    /\ pc = "SMTP"
    /\ calls' = Append(calls, Call("SMTP", TRUE, <<>>, <<>>))
    /\ conn' = "open"
    /\ openConns' = openConns + 1
    /\ pc' = next_step(pc)
    /\ UNCHANGED <<dotenv, environ, bootEnv, req, frame, resp, exc, logged>>

\* A constructor that fails leaves no socket behind; the with block is not entered.
SMTP_raises ==
    /\ pc = "SMTP"
    /\ calls' = Append(calls, Call("SMTP", FALSE, <<>>, <<>>))
    /\ Except(req.route, Raised("SMTP"), pc)
    /\ UNCHANGED <<dotenv, environ, bootEnv, req, frame, conn, openConns, exc>>

WithSteps == {"starttls", "login", "send_message"}

\* The arguments the handler passes to a call on the server object.
Args(op) ==
    CASE op = "login" -> <<frame.sender_email, frame.sender_password>>
      [] op = "send_message" -> <<frame.msg.From>>
      [] OTHER -> <<>>

\* server.starttls(), server.login(...), server.send_message(msg) returning
with_step_returns(op) ==
    /\ pc = op
    /\ calls' = Append(calls, Call(op, TRUE, Args(op), <<>>))
    /\ pc' = next_step(pc)
    /\ UNCHANGED <<dotenv, environ, bootEnv, req, frame, resp, conn, openConns, exc, logged>>

\* ... or raising: control leaves the with block through the context manager.
with_step_raises(op) ==
    /\ pc = op
    /\ calls' = Append(calls, Call(op, FALSE, Args(op), <<>>))
    /\ exc' = Raised(op)
    /\ pc' = "__exit__"
    /\ UNCHANGED <<dotenv, environ, bootEnv, req, frame, resp, conn, openConns, logged>>

QuitOutcomes == {"221", "other", "disconnected"}

\* Variant: server.quit() at the end of the block, without `with`.
close_on_success_only(e) == e = NoExc

\* The with statement closes the connection however the block was left (e is
\* the exception in flight, NoExc on normal exit).
close_on_exit(e) == TRUE

\* Leaving the with block: QUIT is sent; a reply other than 221 raises, a
\* dropped connection is ignored; the socket is closed; the exception in
\* flight, if any, reaches the except clause.
with_exit(quit) ==
    /\ pc = "__exit__"
    /\ calls' = Append(calls, Call("QUIT", quit = "221", <<>>, <<>>))
    /\ IF close_on_exit(exc)
       THEN conn' = "closed" /\ openConns' = openConns - 1
       ELSE UNCHANGED <<conn, openConns>>
    /\ IF quit = "other"
       THEN Except(req.route, Raised("QUIT"), pc)
       ELSE IF exc # NoExc
       THEN Except(req.route, exc, pc)
       ELSE Return(Response(200, "success", EmailSent)) /\ logged' = NoExc
    /\ exc' = NoExc
    /\ UNCHANGED <<dotenv, environ, bootEnv, req, frame>>

\* ------------------------------------------------------------------ environment
\* The .env file is edited while the process runs; nothing reloads it.
edit_dotenv(file) ==
    /\ file # dotenv
    /\ dotenv' = file
    /\ UNCHANGED <<environ, bootEnv, pc, req, frame, resp, calls, conn, openConns, exc, logged>>

\* ------------------------------------------------------------------ specification
Next ==
    \/ \E route \in PageRoutes : page(route)
    \/ \E body \in ChatBodies : chat(body)
    \/ \E body \in AnalyzeBodies : analyze_letter(body)
    \/ \E text \in ModelOutputs : generate_content_returns(text)
    \/ generate_content_raises
    \/ \E body \in EmailBodies : send_email(body)
    \/ SMTP_returns
    \/ SMTP_raises
    \/ \E op \in WithSteps : with_step_returns(op)
    \/ \E op \in WithSteps : with_step_raises(op)
    \/ \E quit \in QuitOutcomes : with_exit(quit)
    \/ \E file \in DotenvFiles : edit_dotenv(file)
    \/ deliver

Spec == Init /\ [][Next]_vars


\* ================================================================== properties
POST_chat == "/api/chat"
POST_send_email == "/api/send-email"
POST_analyze_letter == "/api/analyze-letter"

WhitespaceOnly(s) == \A i \in DOMAIN s : s[i] \in Whitespace

\* The JSON value is a missing key, or an empty or whitespace-only string.
Blank(v) == v.kind = "absent" \/ (v.kind = "str" /\ WhitespaceOnly(v.s))

\* The JSON value is a string with something other than whitespace in it.
NonBlank(v) == v.kind = "str" /\ ~WhitespaceOnly(v.s)

Count(op) == Cardinality({i \in DOMAIN calls : calls[i].op = op})

Failed(op) == \E i \in DOMAIN calls : calls[i].op = op /\ ~calls[i].ok

Positions(c, s) == {i \in DOMAIN s : s[i] = c}

\* user@domain.tld: one "@", a non-empty user, a dot inside the domain with
\* text on both sides, no whitespace.
EmailShape(s) ==
    /\ Cardinality(Positions(at, s)) = 1
    /\ \A i \in DOMAIN s : s[i] \notin Whitespace
    /\ LET a == CHOOSE i \in DOMAIN s : s[i] = at
       IN  /\ a > 1
           /\ \E d \in Positions(dot, s) : d > a + 1 /\ d < Len(s)

InvalidEmailAddress == <<"Invalid email address">>

Configured == ~Falsy(environ["MAIL_USERNAME"]) /\ ~Falsy(environ["MAIL_APP_PASSWORD"])

\* ------------------------------------------------------------------ C1
\* C1: a send-email request with a non-empty letter, configured credentials
\* and a recipient that has not the user@domain.tld shape is answered 400
\* {"error": "Invalid email address"} and no SMTP connection is opened.
C1_InvalidRecipientRejected ==
    ( /\ req.route = POST_send_email
      /\ req.body.json
      /\ NonBlank(req.body.letter)
      /\ NonBlank(req.body.to)
      /\ ~EmailShape(strip(req.body.to.s))
      /\ Configured )
    => /\ Count("SMTP") = 0
       /\ pc = "done" => resp = Response(400, "error", InvalidEmailAddress)

\* ------------------------------------------------------------------ C2
\* C2 as stated: with a credential missing, every send-email request is
\* answered 500 with the configuration message, whatever the payload, and no
\* SMTP connection is opened.
C2_NotConfiguredWhateverPayload ==
    (req.route = POST_send_email /\ ~Configured)
    => /\ calls = <<>>
       /\ pc = "done" => resp = Response(500, "error", EmailNotConfigured)

\* C2 amended: with a credential missing, a send-email request whose body is a
\* JSON object with letter and to both non-empty after trimming is answered
\* 500 with the configuration message; one whose letter or to is missing or
\* blank is answered 400 "Letter and recipient email are required"; in both
\* cases no SMTP connection is opened.
C2_NotConfiguredAfterValidation ==
    (req.route = POST_send_email /\ ~Configured /\ req.body.json)
    => /\ calls = <<>>
       /\ pc = "done"
       /\ (NonBlank(req.body.letter) /\ NonBlank(req.body.to))
            => resp = Response(500, "error", EmailNotConfigured)
       /\ ( /\ Blank(req.body.letter) \/ Blank(req.body.to)
            /\ req.body.letter.kind # "null"
            /\ req.body.to.kind # "null" )
            => resp = Response(400, "error", LetterAndRecipientRequired)

C2_Witness ==
    /\ req.route = POST_send_email
    /\ pc = "done"
    /\ environ["MAIL_USERNAME"] = "os-value"
    /\ environ["MAIL_APP_PASSWORD"] = ""
    /\ req.body.letter = Str(<<"a">>)
    /\ req.body.to = Str(<<"a", at, "a", dot, "a">>)
    /\ resp = Response(500, "error", EmailNotConfigured)

\* ------------------------------------------------------------------ C3
\* C3: a chat request whose message, or an analyze-letter request whose
\* letter, is absent, empty or whitespace-only is answered 400 with an error
\* body, and the text-generation call is not made during it.
C3_BlankInputRejected ==
    ( /\ req.body.json
      /\ \/ req.route = POST_chat /\ Blank(req.body.message)
         \/ req.route = POST_analyze_letter /\ Blank(req.body.letter) )
    => /\ calls = <<>>
       /\ pc = "done"
       /\ resp.status = 400
       /\ resp.key = "error"
       /\ resp.value = IF req.route = POST_chat THEN MessageCannotBeEmpty ELSE ProvideALetter

C3_Witness ==
    /\ req.route = POST_chat
    /\ req.body.message = Str(<<" ", " ">>)
    /\ pc = "done"
    /\ resp.status = 400
    /\ calls = <<>>

\* ------------------------------------------------------------------ C4
ExternalOps == {"generate_content", "SMTP", "starttls", "login", "send_message"}

\* C4: when an external call raises, nothing but the session's QUIT is called
\* after it, and the response is 500 with the endpoint's fixed message, no
\* part of which is the exception's text.
C4_ExternalFailureIsGeneric500 ==
    \A i \in DOMAIN calls :
        (calls[i].op \in ExternalOps /\ ~calls[i].ok)
        => /\ \A j \in DOMAIN calls : j > i => calls[j].op = "QUIT"
           /\ pc \in {"__exit__", "done"}
           /\ pc = "done"
                => /\ resp = Response(500, "error", GenericError(req.route))
                   /\ \A k \in DOMAIN resp.value : resp.value[k] # Raised(calls[i].op)
                   /\ \A k \in DOMAIN resp.value : resp.value[k] # logged

C4_Witness ==
    /\ pc = "done"
    /\ req.route = POST_send_email
    /\ Failed("login")
    /\ logged = Raised("login")
    /\ resp = Response(500, "error", FailedToSend)

\* ------------------------------------------------------------------ C5
\* C5: the prompt of a chat request carries the formal template when tone is
\* "formal", the informal one when it is "informal", and the auto template
\* for "auto", a missing tone and any other value; the three differ; the
\* text appended to the template is the trimmed message.
C5_TemplateByTone ==
    (req.route = POST_chat /\ pc = "generate_content")
    => LET tone == req.body.tone
           template == frame.prompt.system_prompt
       IN  /\ tone = Str(<<"formal">>) => template = FormalTemplate
           /\ tone = Str(<<"informal">>) => template = InformalTemplate
           /\ tone \notin {Str(<<"formal">>), Str(<<"informal">>)} => template = AutoTemplate
           /\ Cardinality({FormalTemplate, InformalTemplate, AutoTemplate}) = 3
           /\ frame.prompt.text = strip(req.body.message.s)

C5_Witness ==
    /\ req.route = POST_chat
    /\ pc = "generate_content"
    /\ req.body.tone = Str(<<"informal">>)
    /\ frame.prompt.system_prompt = InformalTemplate


\* ------------------------------------------------------------------ C6
\* C6: an analyze-letter request whose text-generation call returned is
\* answered 200 with a reply that is the fallback text exactly when the
\* trimmed output is empty, shorter than 10 characters or contains
\* "Suggestions:", and is the trimmed output otherwise.
C6_FallbackExactlyWhenUnusable ==
    ( /\ req.route = POST_analyze_letter
      /\ pc = "done"
      /\ calls # <<>>
      /\ calls[1].ok )
    => LET output == strip(calls[1].result)
           unusable == \/ output = <<>>
                       \/ Len(output) < 10
                       \/ Contains(Marker, output)
       IN  /\ resp.status = 200
           /\ resp.key = "reply"
           /\ resp.value = Fallback <=> unusable
           /\ ~unusable => resp.value = output

C6_Witness ==
    /\ req.route = POST_analyze_letter
    /\ pc = "done"
    /\ calls # <<>>
    /\ calls[1].ok
    /\ calls[1].result = <<" ">> \o Rep("a", 9) \o <<"\n">>
    /\ resp = Response(200, "reply", Fallback)

\* ------------------------------------------------------------------ C7
\* C7: the SMTP connection of a send-email request is open only between the
\* constructor's return and the exit of the with block; once the response is
\* returned it is closed, on the success path and after a failure of
\* starttls, login or send_message alike; the process holds no open
\* connection between requests, and a request uses only the connection it
\* opened itself.
C7_ConnectionClosedBeforeResponse ==
    /\ conn = "open" <=> pc \in WithSteps \cup {"__exit__"}
    /\ openConns = (IF conn = "open" THEN 1 ELSE 0)
    /\ pc \in {"idle", "done"} => openConns = 0
    /\ (pc = "done" /\ Count("SMTP") = 1 /\ calls[1].ok) => conn = "closed"
    /\ \A i \in DOMAIN calls :
         calls[i].op \in WithSteps \cup {"QUIT"} => (i > 1 /\ calls[1] = Call("SMTP", TRUE, <<>>, <<>>))

C7_Witness ==
    /\ pc = "done"
    /\ Failed("login")
    /\ conn = "closed"
    /\ openConns = 0

\* ------------------------------------------------------------------ C8
SmtpOps == {"SMTP", "starttls", "login", "send_message", "QUIT"}

\* C8: during one request the text-generation API is called at most once,
\* at most one SMTP session is opened and at most one message is sent; chat
\* and analyze-letter make no SMTP call, send-email makes no text-generation
\* call and the page routes make no external call.
C8_AtMostOneExternalInteraction ==
    /\ Count("generate_content") <= 1
    /\ \A op \in SmtpOps : Count(op) <= 1
    /\ req.route \in {POST_chat, POST_analyze_letter} => \A op \in SmtpOps : Count(op) = 0
    /\ req.route = POST_send_email => Count("generate_content") = 0
    /\ req.route \in PageRoutes => calls = <<>>
    /\ req = NoReq => calls = <<>>

C8_Witness ==
    /\ pc = "done"
    /\ req.route = POST_chat
    /\ calls = <<Call("generate_content", FALSE, <<frame.prompt>>, <<>>)>>
    /\ resp.status = 500

SessionOrder == <<"SMTP", "starttls", "login", "send_message", "QUIT">>

\* C10: the calls of a send-email request are a prefix of connect, starttls,
\* login, send_message, each made only after the one before it returned,
\* followed by the session's QUIT; the response is the success response only
\* if letter and recipient were non-empty after trimming, both credentials
\* were present and all four returned in that order; every other response is
\* an error with status 400 or 500.
C10_SuccessOnlyAfterFullSession ==
    req.route = POST_send_email
    => /\ \A i \in DOMAIN calls :
            \/ calls[i].op = SessionOrder[i] /\ \A j \in 1..(i - 1) : calls[j].ok
            \/ calls[i].op = "QUIT" /\ i > 1 /\ i = Len(calls) /\ \A j \in 1..(i - 2) : calls[j].ok
       /\ \A i, j \in DOMAIN calls :
            (i < j /\ ~calls[i].ok) => calls[j].op # "send_message"
       /\ pc = "done"
            => IF resp.key = "success"
               THEN /\ resp = Response(200, "success", EmailSent)
                    /\ NonBlank(req.body.letter)
                    /\ NonBlank(req.body.to)
                    /\ ~Falsy(bootEnv["MAIL_USERNAME"])
                    /\ ~Falsy(bootEnv["MAIL_APP_PASSWORD"])
                    /\ Len(calls) = 5
                    /\ \A i \in 1..5 : calls[i].op = SessionOrder[i]
                    /\ \A i \in 1..4 : calls[i].ok
               ELSE /\ resp.key = "error"
                    /\ resp.status \in {400, 500}

C10_Witness ==
    /\ pc = "done"
    /\ req.route = POST_send_email
    /\ resp = Response(200, "success", EmailSent)
    /\ Len(calls) = 5
    /\ ~calls[5].ok

====
